---- MODULE Spec2Model ----
(***************************************************************************)
(* A model of pytest_collector/collector.py: the text reindenter, the      *)
(* per-leaf hierarchy builder, the tree merger, the annotator and the      *)
(* collect() entry point.                                                  *)
(*                                                                         *)
(* Python strings are sequences of one-character strings.  A Python dict   *)
(* is a sequence of [key, val] entries in insertion order.  A dict-shaped  *)
(* node of the code ({"name": .., "obj": .., "children": ..}) is a record; *)
(* a key the code leaves out is a field the record does not have.          *)
(***************************************************************************)
EXTENDS Integers, Sequences, FiniteSets, TLC

VARIABLES
    \* ---- collect() / CollectorPlugin ----
    pc,             \* position inside collect() and the hook it triggers
    session_items,  \* session.items, the flat list of discovered leaves
    idx,            \* position of `for test in session.items`
    test_module,    \* the loop's local `test_module` (last hierarchy built)
    modules,        \* the hook's local dict `modules`
    _modules,       \* CollectorPlugin._modules
    ret,            \* the value pytest.main returned to collect()
    outcome,        \* how collect() ended: a returned value or a raised error
    \* ---- reindent() applied once and twice ----
    string,         \* the argument of reindent
    once,           \* reindent(string)
    twice,          \* reindent(reindent(string))
    calls           \* how many of the two applications have run

vars == <<pc, session_items, idx, test_module, modules, _modules, ret, outcome,
          string, once, twice, calls>>

collectVars == <<pc, session_items, idx, test_module, modules, _modules, ret, outcome>>
reindentVars == <<string, once, twice, calls>>

-----------------------------------------------------------------------------
(* Bounds *)

\* longest argument of reindent that is enumerated
MaxLen == 5
\* longest session.items that is enumerated
MaxItems == 3

-----------------------------------------------------------------------------
(* Python values *)

SP == " "
TAB == "\t"
NL == "\n"

\* the characters the enumerated strings are made of
Chars == {SP, TAB, NL, "a"}

\* str.lstrip() without an argument strips every whitespace character
Whitespace == {SP, TAB, NL}

\* Python's None where a str is expected (no one-character string is "None")
None == <<"None">>

\* a value not assigned yet
Unset == <<"unset">>

Min(a, b) == IF a < b THEN a ELSE b

\* string[:n]
Prefix(s, n) == SubSeq(s, 1, Min(n, Len(s)))

\* string[n:]
Suffix(s, n) == SubSeq(s, Min(n, Len(s)) + 1, Len(s))

RECURSIVE lstrip(_, _)
\* str.lstrip(chars)
lstrip(s, chars) ==
    IF s # <<>> /\ Head(s) \in chars THEN lstrip(Tail(s), chars) ELSE s

RECURSIVE rstrip(_, _)
\* str.rstrip(chars)
rstrip(s, chars) ==
    IF s # <<>> /\ s[Len(s)] \in chars THEN rstrip(SubSeq(s, 1, Len(s) - 1), chars) ELSE s

\* str.strip(chars)
strip(s, chars) == rstrip(lstrip(s, chars), chars)

\* the position of the first line break of s, 0 when it has none
FirstBreak(s) ==
    IF \E i \in 1..Len(s) : s[i] = NL
    THEN CHOOSE i \in 1..Len(s) : s[i] = NL /\ \A j \in 1..(i - 1) : s[j] # NL
    ELSE 0

RECURSIVE splitlines(_)
\* str.splitlines(): no line for the empty string, none after a final break
splitlines(s) ==
    IF s = <<>> THEN <<>>
    ELSE LET i == FirstBreak(s)
         IN  IF i = 0 THEN <<s>>
             ELSE <<SubSeq(s, 1, i - 1)>> \o splitlines(SubSeq(s, i + 1, Len(s)))

RECURSIVE join(_, _)
\* sep.join(lines)
join(sep, lines) ==
    IF lines = <<>> THEN <<>>
    ELSE IF Len(lines) = 1 THEN lines[1]
    ELSE lines[1] \o sep \o join(sep, Tail(lines))

-----------------------------------------------------------------------------
(* reindent, collector.py:7-32 *)

\* line 30: line[:leading_spaces].lstrip() + line[leading_spaces:]
reindent_line(line, leading_spaces) ==
    lstrip(Prefix(line, leading_spaces), Whitespace) \o Suffix(line, leading_spaces)

reindent(s) ==
    IF s = None \/ s = <<>> THEN s
    ELSE LET stripped == strip(s, {NL})
             leading_spaces == Len(stripped) - Len(lstrip(stripped, {SP}))
             split == splitlines(stripped)
             lines == [i \in 1..Len(split) |-> reindent_line(split[i], leading_spaces)]
         IN  join(<<NL>>, lines)

-----------------------------------------------------------------------------
(* The part of the state a specification leaves alone *)

IdleCollect ==
    /\ pc = "idle"
    /\ session_items = <<>>
    /\ idx = 0
    /\ test_module = [unset |-> TRUE]
    /\ modules = <<>>
    /\ _modules = [is_none |-> TRUE]
    /\ ret = "unset"
    /\ outcome = [kind |-> "running"]

IdleReindent ==
    /\ string = Unset
    /\ once = Unset
    /\ twice = Unset
    /\ calls = 0

-----------------------------------------------------------------------------
(* Python dicts, in insertion order *)

HasKey(d, k) == \E i \in 1..Len(d) : d[i].key = k

IndexOf(d, k) == CHOOSE i \in 1..Len(d) : d[i].key = k

\* d[k]
Get(d, k) == d[IndexOf(d, k)].val

\* d[k] = v: a new key is appended, a known key keeps its place
Put(d, k, v) ==
    IF HasKey(d, k) THEN [d EXCEPT ![IndexOf(d, k)].val = v]
    ELSE Append(d, [key |-> k, val |-> v])

\* list(d.values())
Values(d) == [i \in 1..Len(d) |-> d[i].val]

-----------------------------------------------------------------------------
(* The framework's items.  An item is known by the path of names from just  *)
(* below the session down to itself: names are unique among siblings.  The  *)
(* tag tells apart two leaves that break that rule (same name, same parent) *)

Names == {"a", "b"}

\* the session: the implicit root, whose parent is None
Session == [path |-> <<>>, kind |-> "Session", tag |-> 0]

NoItem == [kind |-> "NoneType"]

\* the collector found at a path: modules below the session, classes below
ContainerAt(p) ==
    [path |-> p,
     kind |-> IF p = <<>> THEN "Session" ELSE IF Len(p) = 1 THEN "Module" ELSE "Class",
     tag |-> 0]

Function(p, t) == [path |-> p, kind |-> "Function", tag |-> t]

\* item.parent
parent(item) ==
    IF item.path = <<>> THEN NoItem
    ELSE ContainerAt(SubSeq(item.path, 1, Len(item.path) - 1))

\* item.name
name(item) == IF item.path = <<>> THEN "" ELSE item.path[Len(item.path)]

\* test functions of a module, test methods of a class of a module
ModuleFunctionPaths == {<<m, f>> : m \in Names, f \in Names}
ClassMethodPaths == {<<m, c, f>> : m \in Names, c \in Names, f \in Names}
\* test methods of the class a nested in class a of module a
NestedMethodPaths == {<<"a", "a", "a", f>> : f \in Names}
LeafPaths == ModuleFunctionPaths \cup ClassMethodPaths \cup NestedMethodPaths

\* the leaves of a framework that keeps names unique among siblings
Leaves == {Function(p, 0) : p \in LeafPaths}

\* leaves of one module, each with a second leaf of the same name beside it
DupLeaves == {Function(p, t) : p \in {q \in LeafPaths : q[1] = "a"}, t \in {0, 1}}

IsProperPrefix(p, q) == Len(p) < Len(q) /\ SubSeq(q, 1, Len(p)) = p

\* an item is a leaf or a collector, never both; no item is listed twice
Compatible(x, y) ==
    /\ x # y
    /\ ~IsProperPrefix(x.path, y.path)
    /\ ~IsProperPrefix(y.path, x.path)

RECURSIVE ItemLists(_, _)
\* the lists of n leaves of U that one discovery can deliver
ItemLists(U, n) ==
    IF n = 0 THEN {<<>>}
    ELSE {Append(l, x) : <<l, x>> \in
            {lx \in ItemLists(U, n - 1) \X U :
                \A i \in 1..Len(lx[1]) : Compatible(lx[1][i], lx[2])}}

Discoveries(U) == UNION {ItemLists(U, n) : n \in 0..MaxItems}

RECURSIVE Spaces(_)
Spaces(n) == IF n = 0 THEN <<>> ELSE <<SP>> \o Spaces(n - 1)

\* item.obj.__doc__: a docstring indented like its owner, ending on the
\* indent of the closing quotes; the second of two same-named leaves has none
DocOf(item) ==
    IF item.tag = 1 THEN None
    ELSE LET d == Len(item.path)
         IN  <<NL>> \o Spaces(d) \o <<name(item), NL>>
                    \o Spaces(d + 1) \o <<"*", NL>> \o Spaces(d)

\* inspect.getsource(item.obj): the def line and an indented body
SrcOf(item) ==
    LET d == Len(item.path) - 1
    IN  Spaces(d) \o <<"d", name(item), NL>> \o Spaces(d + 1) \o <<"p", NL>>

-----------------------------------------------------------------------------
(* CollectorPlugin, collector.py:35-151 *)

RECURSIVE climb(_, _)

\* a walk that stops on `level is None` instead of `level.parent is None`
climb_to_root(level, hierarchy) ==
    IF level # NoItem
    THEN climb(parent(level),
               [name |-> name(level),
                obj |-> level,
                children |-> <<[key |-> hierarchy.name, val |-> hierarchy]>>])
    ELSE hierarchy

\* lines 93-99: wrap the hierarchy in each ancestor until the root is reached
climb(level, hierarchy) ==
    IF parent(level) # NoItem
    THEN climb(parent(level),
               [name |-> name(level),
                obj |-> level,
                children |-> <<[key |-> hierarchy.name, val |-> hierarchy]>>])
    ELSE hierarchy

get_test_module_tree(test) ==
    climb(parent(test), [name |-> name(test), obj |-> test])

RECURSIVE merge_child_to_parent(_, _)
RECURSIVE merge_grandchildren(_, _)

\* lines 118-119: the loop over the child's children, merging each into the
\* node already stored under the child's name
merge_grandchildren(existing, grandchildren) ==
    IF grandchildren = <<>> THEN existing
    ELSE merge_grandchildren(merge_child_to_parent(existing, Head(grandchildren)),
                             Tail(grandchildren))

\* a merge that stores the child over whatever its name already holds
merge_child_overwrite(p, child) ==
    [p EXCEPT !.children = Put(p.children, child.name, child)]

\* a merge that never looks below a child it already knows
merge_child_first_wins(p, child) ==
    IF ~HasKey(p.children, child.name)
    THEN [p EXCEPT !.children = Put(p.children, child.name, child)]
    ELSE p

\* a merge in which a leaf of a known name replaces the stored one
merge_child_last_leaf_wins(p, child) ==
    IF ~HasKey(p.children, child.name)
    THEN [p EXCEPT !.children = Put(p.children, child.name, child)]
    ELSE IF "children" \in DOMAIN child
    THEN [p EXCEPT !.children =
             Put(p.children, child.name,
                 merge_grandchildren(Get(p.children, child.name), Values(child.children)))]
    ELSE [p EXCEPT !.children = Put(p.children, child.name, child)]

\* a merge that recurses into `parent` instead of parent["children"][name]
merge_child_wrong_target(p, child) ==
    IF ~HasKey(p.children, child.name)
    THEN [p EXCEPT !.children = Put(p.children, child.name, child)]
    ELSE IF "children" \in DOMAIN child
    THEN merge_grandchildren(p, Values(child.children))
    ELSE p

\* The code changes `parent` in place; the model returns the changed parent.
merge_child_to_parent(p, child) ==
    IF ~HasKey(p.children, child.name)
    THEN [p EXCEPT !.children = Put(p.children, child.name, child)]
    ELSE IF "children" \in DOMAIN child
    THEN [p EXCEPT !.children =
             Put(p.children, child.name,
                 merge_grandchildren(Get(p.children, child.name), Values(child.children)))]
    ELSE p

RECURSIVE collect_data(_)

\* an annotator that reads the source of every item, not of functions only
collect_data_src_everywhere(item) ==
    LET item_obj == item.obj
    IN  IF "children" \notin DOMAIN item
        THEN [type |-> item_obj.kind,
              title |-> name(item_obj),
              doc |-> reindent(DocOf(item_obj)),
              src |-> reindent(SrcOf(item_obj))]
        ELSE [type |-> item_obj.kind,
              title |-> name(item_obj),
              doc |-> reindent(DocOf(item_obj)),
              src |-> reindent(SrcOf(item_obj)),
              children |-> [i \in 1..Len(item.children) |->
                               collect_data(Values(item.children)[i])]]

collect_data(item) ==
    LET item_obj == item.obj
    IN  IF item_obj.kind = "Function"
        THEN [type |-> item_obj.kind,
              title |-> name(item_obj),
              doc |-> reindent(DocOf(item_obj)),
              src |-> reindent(SrcOf(item_obj))]
        ELSE [type |-> item_obj.kind,
              title |-> name(item_obj),
              doc |-> reindent(DocOf(item_obj)),
              children |-> [i \in 1..Len(item.children) |->
                               collect_data(Values(item.children)[i])]]

\* a loop body that stores every hierarchy as a root of its own
merge_test_append(mods, test) ==
    LET tm == get_test_module_tree(test)
    IN  Append(mods, [key |-> tm.name, val |-> tm])

\* lines 69-77: one leaf of the loop of pytest_collection_finish
merge_test(mods, test) ==
    LET tm == get_test_module_tree(test)
    IN  IF ~HasKey(mods, tm.name)
        THEN Put(mods, tm.name, tm)
        ELSE Put(mods, tm.name,
                 merge_child_to_parent(Get(mods, tm.name), Values(tm.children)[1]))

RECURSIVE merge_all(_, _)
\* lines 65-77: the whole loop over a list of leaves
merge_all(mods, tests) ==
    IF tests = <<>> THEN mods
    ELSE merge_all(merge_test(mods, Head(tests)), Tail(tests))

\* line 80
collect_modules(mods) ==
    [is_none |-> FALSE,
     list |-> [i \in 1..Len(mods) |-> collect_data(Values(mods)[i])]]

-----------------------------------------------------------------------------
(* collect(), collector.py:154-177, and the run of pytest.main inside it *)

ExitCodes == {"OK", "TESTS_FAILED", "INTERRUPTED", "INTERNAL_ERROR",
              "USAGE_ERROR", "NO_TESTS_COLLECTED"}

\* line 168: a fresh plugin, nothing collected yet
Init ==
    /\ pc = "main"
    /\ session_items = <<>>
    /\ idx = 0
    /\ test_module = [unset |-> TRUE]
    /\ modules = <<>>
    /\ _modules = [is_none |-> TRUE]
    /\ ret = "unset"
    /\ outcome = [kind |-> "running"]
    /\ IdleReindent

\* pytest.main ends before collection finishes (a bad path, a crash):
\* the hook is never called
MainFailsEarly ==
    /\ pc = "main"
    /\ ret' \in {"USAGE_ERROR", "INTERNAL_ERROR"}
    /\ pc' = "check"
    /\ UNCHANGED <<session_items, idx, test_module, modules, _modules, outcome>>
    /\ UNCHANGED reindentVars

\* discovery ends and the framework calls pytest_collection_finish(session)
CollectionFinish(U) ==
    /\ pc = "main"
    /\ session_items' \in Discoveries(U)
    /\ idx' = 1
    /\ modules' = <<>>
    /\ pc' = "loop"
    /\ UNCHANGED <<test_module, _modules, ret, outcome>>
    /\ UNCHANGED reindentVars

Discover == CollectionFinish(Leaves)

DiscoverDup == CollectionFinish(DupLeaves)

\* lines 66-77, one iteration
LoopBody ==
    /\ pc = "loop"
    /\ idx <= Len(session_items)
    /\ test_module' = get_test_module_tree(session_items[idx])
    /\ modules' = merge_test(modules, session_items[idx])
    /\ idx' = idx + 1
    /\ UNCHANGED <<pc, session_items, _modules, ret, outcome>>
    /\ UNCHANGED reindentVars

\* line 80, and the return of the hook
LoopEnd ==
    /\ pc = "loop"
    /\ idx > Len(session_items)
    /\ _modules' = collect_modules(modules)
    /\ pc' = "hooked"
    /\ UNCHANGED <<session_items, idx, test_module, modules, ret, outcome>>
    /\ UNCHANGED reindentVars

\* line 169: pytest.main returns its exit code; with --collect-only it is OK
\* only when something was collected, NO_TESTS_COLLECTED only when nothing was
MainReturns ==
    /\ pc = "hooked"
    /\ ret' \in IF session_items = <<>>
                THEN {"NO_TESTS_COLLECTED", "INTERRUPTED", "INTERNAL_ERROR"}
                ELSE {"OK", "INTERRUPTED", "INTERNAL_ERROR"}
    /\ pc' = "check"
    /\ UNCHANGED <<session_items, idx, test_module, modules, _modules, outcome>>
    /\ UNCHANGED reindentVars

\* a collect() that hands back what was gathered whatever the exit code
CollectReturnsAnyway ==
    /\ pc = "check"
    /\ ret # "OK"
    /\ outcome' = [kind |-> "return", value |-> _modules]
    /\ pc' = "done"
    /\ UNCHANGED <<session_items, idx, test_module, modules, _modules, ret>>
    /\ UNCHANGED reindentVars

\* lines 173-174
CollectRaises ==
    /\ pc = "check"
    /\ ret # "OK"
    /\ outcome' = [kind |-> "raise", error |-> "ValueError", arg |-> ret]
    /\ pc' = "done"
    /\ UNCHANGED <<session_items, idx, test_module, modules, _modules, ret>>
    /\ UNCHANGED reindentVars

\* line 177
CollectReturns ==
    /\ pc = "check"
    /\ ret = "OK"
    /\ outcome' = [kind |-> "return", value |-> _modules]
    /\ pc' = "done"
    /\ UNCHANGED <<session_items, idx, test_module, modules, _modules, ret>>
    /\ UNCHANGED reindentVars

Next ==
    \/ MainFailsEarly
    \/ Discover
    \/ LoopBody
    \/ LoopEnd
    \/ MainReturns
    \/ CollectRaises
    \/ CollectReturns

Spec == Init /\ [][Next]_vars

NextDup ==
    \/ MainFailsEarly
    \/ DiscoverDup
    \/ LoopBody
    \/ LoopEnd
    \/ MainReturns
    \/ CollectRaises
    \/ CollectReturns

\* the same program fed by a framework that lets two sibling leaves share a name
SpecDup == Init /\ [][NextDup]_vars

-----------------------------------------------------------------------------
(* The reindent specification: every string up to MaxLen, and None *)

RECURSIVE StringsOfLen(_)
StringsOfLen(n) ==
    IF n = 0 THEN {<<>>}
    ELSE {Append(s, c) : s \in StringsOfLen(n - 1), c \in Chars}

Strings == UNION {StringsOfLen(n) : n \in 0..MaxLen}

InitReindent ==
    /\ IdleCollect
    /\ string \in Strings \cup {None}
    /\ once = Unset
    /\ twice = Unset
    /\ calls = 0

\* reindent(string)
ReindentOnce ==
    /\ calls = 0
    /\ once' = reindent(string)
    /\ calls' = 1
    /\ UNCHANGED <<string, twice>>
    /\ UNCHANGED collectVars

\* reindent(reindent(string))
ReindentTwice ==
    /\ calls = 1
    /\ twice' = reindent(once)
    /\ calls' = 2
    /\ UNCHANGED <<string, once>>
    /\ UNCHANGED collectVars

NextReindent == ReindentOnce \/ ReindentTwice

SpecReindent == InitReindent /\ [][NextReindent]_vars

-----------------------------------------------------------------------------
(* Reading the trees *)

RECURSIVE Concat(_)
Concat(seqs) == IF seqs = <<>> THEN <<>> ELSE Head(seqs) \o Concat(Tail(seqs))

RECURSIVE HierNodes(_, _)
\* every node below (and at) a dict entry of the hierarchy, with the keys
\* that lead to it from the root
HierNodes(entry, prefix) ==
    LET at == Append(prefix, entry.key)
        n == entry.val
    IN  <<[at |-> at, node |-> n]>> \o
        (IF "children" \in DOMAIN n
         THEN Concat([i \in 1..Len(n.children) |-> HierNodes(n.children[i], at)])
         ELSE <<>>)

AllHierNodes(mods) == Concat([i \in 1..Len(mods) |-> HierNodes(mods[i], <<>>)])

RECURSIVE OutNodes(_, _)
\* every node below (and at) an output tree, with the titles that lead to it
OutNodes(data, prefix) ==
    LET at == Append(prefix, data.title)
    IN  <<[at |-> at, data |-> data]>> \o
        (IF "children" \in DOMAIN data
         THEN Concat([i \in 1..Len(data.children) |-> OutNodes(data.children[i], at)])
         ELSE <<>>)

AllOutNodes(list) == Concat([i \in 1..Len(list) |-> OutNodes(list[i], <<>>)])

\* how many entries of a sequence satisfy a test
Count(seq, Test(_)) == Cardinality({i \in 1..Len(seq) : Test(seq[i])})

\* the hook has run to its end
Hooked == pc \in {"hooked", "check", "done"} /\ ~_modules.is_none

\* the leaves the loop has merged so far
Processed == {session_items[k] : k \in 1..(idx - 1)}

RECURSIVE AncestorsOrSelf(_)
\* an item and the collectors above it, the session left out
AncestorsOrSelf(item) ==
    IF item.path = <<>> THEN {} ELSE {item} \cup AncestorsOrSelf(parent(item))

\* the objects of the leaf nodes below (and at) a node of the hierarchy
LeavesUnder(n) ==
    LET below == HierNodes([key |-> n.name, val |-> n], <<>>)
    IN  {below[i].node.obj : i \in {j \in 1..Len(below) : "children" \notin DOMAIN below[j].node}}

-----------------------------------------------------------------------------
(* C1 *)

\* C1 (tree completeness): once pytest_collection_finish has run on a list of
\* leaves whose names are unique among siblings, every leaf of the list is
\* found exactly once as a Function node of the output, at its own path of
\* titles below some root, and the output has no other Function node.
TreeCompleteness ==
    Hooked =>
        LET out == AllOutNodes(_modules.list)
            IsFunction(n) == n.data.type = "Function"
        IN  /\ \A k \in 1..Len(session_items) :
                LET IsLeaf(n) == IsFunction(n) /\ n.at = session_items[k].path
                IN  Count(out, IsLeaf) = 1
            /\ Count(out, IsFunction) = Len(session_items)

\* three leaves, two of them methods of one class, have been collected
TreeCompletenessWitness ==
    /\ pc = "done"
    /\ outcome.kind = "return"
    /\ Len(session_items) = 3
    /\ \E i, j \in 1..3 :
          /\ i # j
          /\ Len(session_items[i].path) = 3
          /\ parent(session_items[i]) = parent(session_items[j])
    /\ Count(AllOutNodes(_modules.list), LAMBDA n : n.data.type = "Function") = 3

-----------------------------------------------------------------------------
(* C2 *)

\* C2 (shared prefixes are merged): once the hook has run, every container
\* above a collected leaf (each module, each class) is exactly one node of the
\* output, however many leaves lie below it.
ContainersMergedOnce ==
    Hooked =>
        LET out == AllOutNodes(_modules.list)
        IN  \A k \in 1..Len(session_items) :
                \A n \in 1..(Len(session_items[k].path) - 1) :
                    LET IsContainer(x) == x.at = SubSeq(session_items[k].path, 1, n)
                    IN  Count(out, IsContainer) = 1

\* two tests of one class of one module: one Module node, with one Class child,
\* with two Function children
ContainersMergedOnceWitness ==
    /\ Hooked
    /\ session_items = <<Function(<<"a", "b", "a">>, 0), Function(<<"a", "b", "b">>, 0)>>
    /\ Len(_modules.list) = 1
    /\ _modules.list[1].type = "Module"
    /\ Len(_modules.list[1].children) = 1
    /\ _modules.list[1].children[1].type = "Class"
    /\ Len(_modules.list[1].children[1].children) = 2
    /\ \A i \in 1..2 : _modules.list[1].children[1].children[i].type = "Function"

-----------------------------------------------------------------------------
(* C3 *)

\* C3 (collect's outcome): collect() returns, and returns the plugin's
\* modules, exactly when pytest.main returned OK; on any other exit code it
\* raises ValueError carrying that very code and returns nothing.
CollectOutcome ==
    pc = "done" =>
        /\ outcome.kind = "return" <=> ret = "OK"
        /\ ret = "OK" => outcome = [kind |-> "return", value |-> _modules]
        /\ ret # "OK" => outcome = [kind |-> "raise", error |-> "ValueError", arg |-> ret]

\* nothing was collected: the hook ran on an empty list and collect() raised
\* with the code for "no tests collected"
CollectOutcomeWitness ==
    /\ pc = "done"
    /\ session_items = <<>>
    /\ _modules = [is_none |-> FALSE, list |-> <<>>]
    /\ ret = "NO_TESTS_COLLECTED"
    /\ outcome.kind = "raise"
    /\ outcome.arg = "NO_TESTS_COLLECTED"

-----------------------------------------------------------------------------
(* C4 *)

\* C4 (reindent idempotence), as claimed: for every argument, None and the
\* empty string included, reindent applied twice gives what it gives once.
ReindentIdempotent == calls = 2 => twice = once

-----------------------------------------------------------------------------
(* C5 *)

\* the number of leading spaces of a string
LeadingSpaces(s) == Len(s) - Len(lstrip(s, {SP}))

\* what C5 says reindent returns for a non-empty argument
ClaimedReindent(s) ==
    LET stripped == strip(s, {NL})
        n == LeadingSpaces(stripped)
        split == splitlines(stripped)
    IN  join(<<NL>>, [i \in 1..Len(split) |->
                         Suffix(split[i], Min(n, LeadingSpaces(split[i])))])

\* C5 (what reindent removes), as claimed: for a non-empty argument whose
\* first line, newlines trimmed, starts with n spaces, each line of the result
\* is the line of the argument less its first min(n, leading spaces) spaces;
\* nothing else is removed and tabs stay.
ReindentRemovesOnlySpaces ==
    (calls >= 1 /\ string # None /\ string # <<>>) => once = ClaimedReindent(string)

-----------------------------------------------------------------------------
(* C6 *)

RECURSIVE NormNode(_)
\* a node of the hierarchy with the order of its children forgotten
NormNode(n) ==
    IF "children" \in DOMAIN n
    THEN [name |-> n.name, obj |-> n.obj,
          children |-> {[key |-> n.children[i].key, val |-> NormNode(n.children[i].val)] :
                           i \in 1..Len(n.children)}]
    ELSE n

\* a dict of the hierarchy with the order of its entries forgotten
NormDict(d) == {[key |-> d[i].key, val |-> NormNode(d[i].val)] : i \in 1..Len(d)}

\* the hook's tree had session.items come in the order f
TreeInOrder(f) ==
    merge_all(<<>>, [i \in 1..Len(session_items) |-> session_items[f[i]]])

\* C6 (order independence): whatever order the same leaves are processed in,
\* the loop ends with the same roots and, in every container, the same set of
\* children; only the order of siblings may differ.
OrderIndependence ==
    pc = "hooked" =>
        {NormDict(TreeInOrder(f)) : f \in Permutations(1..Len(session_items))}
            = {NormDict(modules)}

\* three leaves were collected and another order of them gives a tree that
\* differs in the order of siblings
OrderIndependenceWitness ==
    /\ pc = "hooked"
    /\ Len(session_items) = 3
    /\ \E f \in Permutations(1..Len(session_items)) : TreeInOrder(f) # modules

-----------------------------------------------------------------------------
(* C7 *)

-----------------------------------------------------------------------------
(* C8 *)

RECURSIVE IsChainTo(_, _)
\* n heads a chain of single children, each keyed by its name and holding a
\* child of the item above it, that ends in the leaf `test` with no mapping
IsChainTo(n, test) ==
    /\ n.name = name(n.obj)
    /\ IF n.obj = test THEN "children" \notin DOMAIN n
       ELSE /\ "children" \in DOMAIN n
            /\ Len(n.children) = 1
            /\ n.children[1].key = n.children[1].val.name
            /\ parent(n.children[1].val.obj) = n.obj
            /\ IsChainTo(n.children[1].val, test)

\* C8 (the hierarchy of one leaf): get_test_module_tree returns a chain whose
\* top is the leaf's ancestor just below the root (its parent has no parent),
\* with one child per level keyed by the child's name, ending in the leaf with
\* no children mapping; a leaf whose parent is the module is the module
\* node's direct child.
SingleChain ==
    test_module # [unset |-> TRUE] =>
        LET test == session_items[idx - 1]
        IN  /\ parent(test_module.obj) # NoItem
            /\ parent(parent(test_module.obj)) = NoItem
            /\ IsChainTo(test_module, test)
            /\ parent(test).kind = "Module" =>
                   /\ test_module.obj = parent(test)
                   /\ test_module.children[1].val.obj = test

\* the chain of a test function that sits directly in its module
SingleChainWitness ==
    /\ test_module # [unset |-> TRUE]
    /\ test_module.obj.kind = "Module"
    /\ test_module.children[1].val.obj = session_items[idx - 1]
    /\ session_items[idx - 1].kind = "Function"

-----------------------------------------------------------------------------
(* C9 *)

RECURSIVE Lookup(_, _)
\* the nodes found by following a path of keys through a dict (none or one)
Lookup(d, path) ==
    IF path = <<>> \/ ~HasKey(d, Head(path)) THEN {}
    ELSE IF Len(path) = 1 THEN {Get(d, Head(path))}
    ELSE IF "children" \in DOMAIN Get(d, Head(path))
    THEN Lookup(Get(d, Head(path)).children, Tail(path))
    ELSE {}

\* the next leaf of the loop has a name that is already a key of the children
\* of its parent's node
DuplicateLeafNext ==
    /\ pc = "loop"
    /\ idx <= Len(session_items)
    /\ Lookup(modules, session_items[idx].path) # {}

\* C9 (a duplicate leaf is dropped): merging a leaf whose name is already a
\* key of its parent's children changes nothing: the mapping and the node
\* stored first stay as they are, and the loop goes on.
DuplicateLeafIsNoOp ==
    [][DuplicateLeafNext => (modules' = modules /\ idx' = idx + 1)]_vars

\* a second leaf of a known name has just been merged, and the node under
\* that name is still the first leaf
DuplicateLeafIsNoOpWitness ==
    /\ pc = "loop"
    /\ idx > 2
    /\ \E j \in 1..(idx - 2) :
          /\ session_items[j].path = session_items[idx - 1].path
          /\ session_items[j] # session_items[idx - 1]
          /\ \A n \in Lookup(modules, session_items[j].path) : n.obj = session_items[j]
          /\ Lookup(modules, session_items[j].path) # {}

-----------------------------------------------------------------------------
(* C10 *)

\* the leaves merged so far and the collectors above them
Merged == UNION {AncestorsOrSelf(l) : l \in Processed}

\* C10 (merging goes by the whole path): after any number of merges every
\* item merged so far, leaf or collector, is one node of the hierarchy, reached
\* by the names of its ancestors, and the leaves below that node are the
\* merged leaves below that item and no others; so items that share a name
\* but not a parent stay apart.
MergedByPath ==
    LET nodes == AllHierNodes(modules)
    IN  /\ \A x \in Merged :
            LET Holds(n) == n.node.obj = x
            IN  Count(nodes, Holds) = 1
        /\ \A i \in 1..Len(nodes) :
            /\ nodes[i].at = nodes[i].node.obj.path
            /\ LeavesUnder(nodes[i].node) =
                   {l \in Processed : nodes[i].node.obj \in AncestorsOrSelf(l)}

\* two leaves of one name, in two classes of one name, in two places
MergedByPathWitness ==
    \E x, y \in Processed :
        /\ x # y
        /\ name(x) = name(y)
        /\ parent(x) # parent(y)
        /\ name(parent(x)) = name(parent(y))
        /\ Len(x.path) # Len(y.path)

====
